---- MODULE Spec2Model ----
(***************************************************************************)
(* State-machine model of the CastFlow POX controller module               *)
(* (src/pox_version/castflow.py): the router registry, the adjacency map   *)
(* keyed by Router objects, the per-router igmp_ports list and             *)
(* connected_hosts table, and the five event handlers of CastflowManager.  *)
(*                                                                         *)
(* Each action is one event processed to completion.  A handler that       *)
(* raises a Python exception keeps every assignment it made before the     *)
(* raise (there is no rollback); the exception's name is recorded in       *)
(* `fault`.                                                                *)
(***************************************************************************)
EXTENDS Integers, Sequences, FiniteSets, TLC

\* ---------------------------------------------------------------- bounds
MaxConn == 3        \* connection handles (hence Router objects) ever created
MaxEvents == 6      \* external events processed in one run of Spec
MaxRepairEvents == 8 \* external events processed in one run of SpecRepair
MaxReconnectEvents == 9 \* external events processed in one run of SpecReconnect

\* Switch identifiers (dpid), physical port numbers, host addresses.
Dpids == {1, 2}
PhysPorts == {1, 2}
SrcIPs == {<<10, 0, 0, 5>>, <<10, 0, 0, 6>>}
IGMP_DST == <<224, 0, 0, 22>>
MCAST_DST == <<224, 1, 1, 1>>
UCAST_DST == <<10, 0, 0, 9>>

\* ------------------------------------------------------------- constants
OFPP_LOCAL == 65534
OFPP_FLOOD == 65531
OFPP_CONTROLLER == 65533
OFPP_NONE == 65535
IPV4_TYPE == 2048

NoRouter == 0       \* self.routers.get(dpid) is None
NoConn == 0         \* Router.connection is None
AbsentKey == -1     \* key not in the (default)dict
NoneVal == 0        \* key present, value None (auto-vivified by defaultdict)
NoIP == <<>>

ObjIds == 1..MaxConn

\* --------------------------------------------------------- list helpers
Contains(s, x) == \E i \in 1..Len(s) : s[i] = x

\* list.remove(x): removes the first occurrence only
ListRemove(s, x) ==
  LET i == CHOOSE k \in 1..Len(s) : s[k] = x /\ \A j \in 1..(k - 1) : s[j] # x
  IN  SubSeq(s, 1, i - 1) \o SubSeq(s, i + 1, Len(s))

\* ------------------------------------------------------------- the state
VARIABLES
  routers,                  \* self.routers: dpid -> Router object (NoRouter: no key)
  ports,                    \* Router.ports per object (<<>>: None)
  igmp_ports,               \* Router.igmp_ports per object (a list)
  connected_hosts,          \* Router.connected_hosts per object: port -> IP (NoIP: no key)
  connection,               \* Router.connection per object
  adjacency,                \* self.adjacency[<<r1, r2>>]
  got_first_connection_up,  \* self.got_first_connection_up
  timers_armed,             \* number of Timer(...) objects created
  membership_records,       \* CastflowManager.membership_records, group -> record
  links,                    \* core.openflow_discovery.adjacency (raw reported links)
  nconn,                    \* connection handles created so far
  conn_dpid,                \* handle -> connection.dpid
  conn_up,                  \* handles whose connection is up
  sent,                     \* messages sent by the last handler
  ev,                       \* the last event processed
  fault,                    \* exception raised by the last handler ("none")
  nev,                      \* events processed
  budget,                   \* events the run may process
  trip                      \* history: the link round trip under way

vars == <<routers, ports, igmp_ports, connected_hosts, connection, adjacency,
          got_first_connection_up, timers_armed, links, nconn, conn_dpid,
          conn_up, sent, ev, fault, nev, budget, membership_records, trip>>

\* connection.features.ports of every switch: the physical ports and the local port
FeaturePorts == <<1, 2, OFPP_LOCAL>>

\* Discovery.Link(dpid1, port1, dpid2, port2)
\* The physical topology is two parallel cables between the two switches,
\* port p to port p; discovery reports each cable direction separately.
Links == {l \in Dpids \X PhysPorts \X Dpids \X PhysPorts : l[1] # l[3] /\ l[2] = l[4]}

flip(l) == <<l[3], l[4], l[1], l[2]>>

NoEvent == [kind |-> "none", link |-> <<>>, dpid |-> 0, conn |-> 0, port |-> 0,
            pkt |-> <<>>]

\* the group addresses membership_records can be keyed by
Groups == {MCAST_DST}

\* no link round trip under way
NoTrip == [stage |-> "idle", link |-> <<>>, igmp_ports |-> <<>>, adjacency |-> <<>>,
           clean |-> FALSE]

InitState ==
  /\ routers = [d \in Dpids |-> NoRouter]
  /\ ports = [o \in ObjIds |-> <<>>]
  /\ igmp_ports = [o \in ObjIds |-> <<>>]
  /\ connected_hosts = [o \in ObjIds |-> [p \in PhysPorts |-> NoIP]]
  /\ connection = [o \in ObjIds |-> NoConn]
  /\ adjacency = [k \in ObjIds \X ObjIds |-> AbsentKey]
  /\ got_first_connection_up = FALSE
  /\ timers_armed = 0
  /\ membership_records = [g \in Groups |-> NoneVal]
  /\ trip = NoTrip
  /\ links = {}
  /\ nconn = 0
  /\ conn_dpid = [h \in ObjIds |-> 0]
  /\ conn_up = {}
  /\ sent = <<>>
  /\ ev = NoEvent
  /\ fault = "none"
  /\ nev = 0

Init == InitState /\ budget = MaxEvents


\* ------------------------------------------------------------- messages
PacketOut(h, inport, acts, payload) ==
  [type |-> "packet_out", conn |-> h, in_port |-> inport, actions |-> acts,
   match |-> <<>>, data |-> payload]

FlowMod(h, dltype, dst, inport, acts) ==
  [type |-> "flow_mod", conn |-> h, in_port |-> inport, actions |-> acts,
   match |-> <<dltype, dst, inport>>, data |-> "none"]

\* drop_packet: one packet-out on the event's connection with no actions
drop_packet(h, inport) == <<PacketOut(h, inport, <<>>, "packet_in")>>

\* IPAddr.inNetwork('224.0.0.0/4'): the top four bits of the first octet are 1110
InMulticastNet(ip) == ip[1] \div 16 = 224 \div 16

\* --------------------------------------------------------------- Router
\* Router.connect, the `if self.ports is None` branch: every feature port
\* except the reserved ones is appended to igmp_ports, in order.
InitialIgmpPorts(fp) ==
  SelectSeq(fp, LAMBDA p : p # OFPP_CONTROLLER /\ p # OFPP_LOCAL)

\* ------------------------------------------------------ _handle_LinkEvent
\* The handler works on the record st = [adjacency, igmp_ports,
\* connected_hosts, fault]; a raise ends it with the assignments made so far.
HState == [adjacency |-> adjacency, igmp_ports |-> igmp_ports,
           connected_hosts |-> connected_hosts, fault |-> "none"]

\* mutant: the reverse direction is never looked up
ReverseReportedAlways(l, lks) == TRUE

\* flip(l) in core.openflow_discovery.adjacency
ReverseReported(l, lks) == flip(l) \in lks

\* adjacency[r1][r2] = p1; r1.igmp_ports.remove(p1);
\* adjacency[r2][r1] = p2; r2.igmp_ports.remove(p2)
\* list.remove raises ValueError when the port is not in the list.
SetAdjacencyPair(st, r1, p1, r2, p2) ==
  LET s1 == [st EXCEPT !.adjacency[<<r1, r2>>] = p1] IN
  IF ~Contains(s1.igmp_ports[r1], p1) THEN [s1 EXCEPT !.fault = "ValueError"]
  ELSE
  LET s2 == [s1 EXCEPT !.igmp_ports[r1] = ListRemove(@, p1)]
      s3 == [s2 EXCEPT !.adjacency[<<r2, r1>>] = p2]
  IN
  IF ~Contains(s3.igmp_ports[r2], p2) THEN [s3 EXCEPT !.fault = "ValueError"]
  ELSE [s3 EXCEPT !.igmp_ports[r2] = ListRemove(@, p2)]

\* del router.connected_hosts[port] for both endpoints, when present
RetractHosts(st, r1, p1, r2, p2) ==
  LET s1 == [st EXCEPT !.connected_hosts[r1][p1] = NoIP]
  IN  [s1 EXCEPT !.connected_hosts[r2][p2] = NoIP]

\* event.added branch
LinkAdded(st, r1, r2, l, lks) ==
  IF st.adjacency[<<r1, r2>>] \in {AbsentKey, NoneVal}
  THEN
    \* reading adjacency[router1][router2] creates the key with value None
    LET s0 == [st EXCEPT !.adjacency[<<r1, r2>>] = NoneVal] IN
    IF ReverseReported(l, lks)
    THEN LET s1 == SetAdjacencyPair(s0, r1, l[2], r2, l[4]) IN
         IF s1.fault # "none" THEN s1 ELSE RetractHosts(s1, r1, l[2], r2, l[4])
    ELSE s0
  ELSE st

\* links ll the repair loop can stop at: same direction, reported both ways
ParallelCandidates(l, lks) ==
  {ll \in lks : ll[1] = l[1] /\ ll[3] = l[3] /\ ReverseReported(ll, lks)}

\* event.removed branch up to the repair loop
LinkRemovedPrefix(st, r1, r2, l) ==
  LET s1 == [st EXCEPT !.adjacency[<<r1, r2>>] = AbsentKey]
      s2 == [s1 EXCEPT !.adjacency[<<r2, r1>>] = AbsentKey]
      s3 == [s2 EXCEPT !.igmp_ports[r1] = Append(@, l[2])]
  IN  [s3 EXCEPT !.igmp_ports[r2] = Append(@, l[4])]

\* the repair loop, stopping at candidate ll (<<>>: no candidate)
PromoteParallel(st, r1, r2, ll) ==
  IF ll = <<>> THEN st ELSE SetAdjacencyPair(st, r1, ll[2], r2, ll[4])

\* the whole handler; ll is the link at which the repair loop breaks
HandleLinkEvent(st, reg, lks, l, removed, ll) ==
  IF reg[l[1]] = NoRouter \/ reg[l[3]] = NoRouter
  THEN [st EXCEPT !.fault = "KeyError"]
  ELSE LET r1 == reg[l[1]]
           r2 == reg[l[3]]
       IN  IF removed
           THEN PromoteParallel(LinkRemovedPrefix(st, r1, r2, l), r1, r2, ll)
           ELSE LinkAdded(st, r1, r2, l, lks)

LinkEv(kind, l) == [NoEvent EXCEPT !.kind = kind, !.link = l]

\* a switch discovery can hear from: one of its connections is up
Connected(d) == \E h \in conn_up : conn_dpid[h] = d

\* ---------------------------------------------------- round-trip history
\* The history variable trip follows consecutive link events on one cable.
\* It holds igmp_ports and adjacency as they were before the first link-up:
\*   "pending"   link-up of trip.link handled, its reverse not reported
\*   "confirmed" link-up of the reverse handled next
\*   "half_down" link-down of one direction handled next (trip.link is the other)
\*   "both_down" link-down of the other direction handled next
\*   "up_down"   link-down of trip.link handled right after its pending link-up
\* clean: at the first link-up both routers were registered, not adjacent in
\* either direction, and discovery reported no link between them.
CleanPair(l) ==
  /\ routers[l[1]] # NoRouter
  /\ routers[l[3]] # NoRouter
  /\ adjacency[<<routers[l[1]], routers[l[3]]>>] \in {AbsentKey, NoneVal}
  /\ adjacency[<<routers[l[3]], routers[l[1]]>>] \in {AbsentKey, NoneVal}
  /\ \A k \in links : {k[1], k[3]} # {l[1], l[3]}

TripAfter(e) ==
  IF e.kind = "link_up"
  THEN IF trip.stage = "pending" /\ trip.clean /\ e.link = flip(trip.link)
       THEN [trip EXCEPT !.stage = "confirmed"]
       ELSE IF flip(e.link) \notin links
       THEN [stage |-> "pending", link |-> e.link, igmp_ports |-> igmp_ports,
             adjacency |-> adjacency, clean |-> CleanPair(e.link)]
       ELSE NoTrip
  ELSE IF e.kind = "link_down"
  THEN IF trip.stage = "pending" /\ e.link = trip.link
       THEN [trip EXCEPT !.stage = "up_down"]
       ELSE IF trip.stage = "confirmed" /\ e.link \in {trip.link, flip(trip.link)}
       THEN [trip EXCEPT !.stage = "half_down", !.link = flip(e.link)]
       ELSE IF trip.stage = "half_down" /\ e.link = trip.link
       THEN [trip EXCEPT !.stage = "both_down"]
       ELSE NoTrip
  ELSE NoTrip

\* Discovery adds the link to its adjacency, then raises LinkEvent(added).
\* A link is detected from LLDP packets of two connected switches.
LinkUp(l) ==
  /\ nev < budget
  /\ l \notin links
  /\ Connected(l[1]) /\ Connected(l[3])
  /\ links' = links \cup {l}
  /\ LET st == HandleLinkEvent(HState, routers, links', l, FALSE, <<>>) IN
       /\ adjacency' = st.adjacency
       /\ igmp_ports' = st.igmp_ports
       /\ connected_hosts' = st.connected_hosts
       /\ fault' = st.fault
  /\ sent' = <<>>
  /\ ev' = LinkEv("link_up", l)
  /\ nev' = nev + 1
  /\ trip' = TripAfter(ev')
  /\ UNCHANGED <<routers, ports, connection, got_first_connection_up,
                 timers_armed, nconn, conn_dpid, conn_up, budget, membership_records>>

\* Discovery deletes the link from its adjacency (timeout, port or connection
\* down), then raises LinkEvent(removed)
LinkDown(l) ==
  /\ nev < budget
  /\ l \in links
  /\ links' = links \ {l}
  /\ \E ll \in (IF ParallelCandidates(l, links') = {} THEN {<<>>}
                ELSE ParallelCandidates(l, links')) :
       LET st == HandleLinkEvent(HState, routers, links', l, TRUE, ll) IN
         /\ adjacency' = st.adjacency
         /\ igmp_ports' = st.igmp_ports
         /\ connected_hosts' = st.connected_hosts
         /\ fault' = st.fault
  /\ sent' = <<>>
  /\ ev' = LinkEv("link_down", l)
  /\ nev' = nev + 1
  /\ trip' = TripAfter(ev')
  /\ UNCHANGED <<routers, ports, connection, got_first_connection_up,
                 timers_armed, nconn, conn_dpid, conn_up, budget, membership_records>>


\* --------------------------------------------------- _handle_ConnectionUp
\* mutant: every connection-up creates a Router
IsNewRouterAlways(reg, d) == TRUE

\* self.routers.get(event.dpid) is None
IsNewRouter(reg, d) == reg[d] = NoRouter

\* mutant: the flag is not consulted
IsFirstConnectionUpAlways(flag) == TRUE

\* not self.got_first_connection_up
IsFirstConnectionUp(flag) == ~flag

\* A connection-up brings a fresh connection handle h for switch d.  A Router
\* object is created (and connected) only for an unseen dpid; the object is
\* identified by the handle that created it.
ConnectionUp(d) ==
  /\ nev < budget
  /\ nconn < MaxConn
  /\ LET h == nconn + 1 IN
       /\ nconn' = h
       /\ conn_dpid' = [conn_dpid EXCEPT ![h] = d]
       /\ conn_up' = conn_up \cup {h}
       /\ IF IsNewRouter(routers, d)
          THEN /\ routers' = [routers EXCEPT ![d] = h]
               /\ ports' = [ports EXCEPT ![h] = FeaturePorts]
               /\ igmp_ports' = [igmp_ports EXCEPT ![h] = InitialIgmpPorts(FeaturePorts)]
               /\ connection' = [connection EXCEPT ![h] = h]
          ELSE UNCHANGED <<routers, ports, igmp_ports, connection>>
       /\ ev' = [NoEvent EXCEPT !.kind = "connection_up", !.dpid = d, !.conn = h]
  /\ IF IsFirstConnectionUp(got_first_connection_up)
     THEN /\ got_first_connection_up' = TRUE
          /\ timers_armed' = timers_armed + 1
     ELSE UNCHANGED <<got_first_connection_up, timers_armed>>
  /\ sent' = <<>>
  /\ fault' = "none"
  /\ nev' = nev + 1
  /\ trip' = NoTrip
  /\ UNCHANGED <<connected_hosts, adjacency, links, budget, membership_records>>

\* ------------------------------------------------- _handle_ConnectionDown
\* Connection h goes down.  The manager drops the Router registered for the
\* dpid; a Router object listening to h runs Router.disconnect.
ConnectionDown(h) ==
  /\ nev < budget
  /\ h \in conn_up
  /\ conn_up' = conn_up \ {h}
  /\ routers' = [routers EXCEPT ![conn_dpid[h]] = NoRouter]
  /\ connection' = [o \in ObjIds |-> IF connection[o] = h THEN NoConn ELSE connection[o]]
  /\ ev' = [NoEvent EXCEPT !.kind = "connection_down", !.dpid = conn_dpid[h], !.conn = h]
  /\ sent' = <<>>
  /\ fault' = "none"
  /\ nev' = nev + 1
  /\ UNCHANGED <<ports, igmp_ports, connected_hosts, adjacency,
                 got_first_connection_up, timers_armed, links, nconn, conn_dpid, budget,
                 membership_records>>
  /\ trip' = NoTrip

\* ------------------------------------------------------- _handle_PacketIn
\* event.parsed: which headers parse, and the IPv4 addresses
Packets ==
  {[igmp |-> TRUE, ipv4 |-> TRUE, srcip |-> s, dstip |-> IGMP_DST] : s \in SrcIPs}
  \cup {[igmp |-> FALSE, ipv4 |-> TRUE, srcip |-> <<10, 0, 0, 6>>, dstip |-> MCAST_DST]}
  \cup {[igmp |-> FALSE, ipv4 |-> TRUE, srcip |-> <<10, 0, 0, 5>>, dstip |-> UCAST_DST]}
  \cup {[igmp |-> FALSE, ipv4 |-> FALSE, srcip |-> NoIP, dstip |-> NoIP]}

\* mutant: the neighbour check never matches
FromNeighbourRouterNever(adj, r, port) == FALSE

\* some neighbour has adjacency[receiving_router][neighbour] == event.port
FromNeighbourRouter(adj, r, port) == \E n \in ObjIds : adj[<<r, n>>] = port

\* mutant: the source is never recorded
LearnHostNever(hosts, port, ip) == hosts

\* mutant: the source is recorded whether or not the port has an entry
LearnHostAlways(hosts, port, ip) == [hosts EXCEPT ![port] = ip]

\* if not event.port in connected_hosts: connected_hosts[event.port] = srcip
LearnHost(hosts, port, ip) ==
  IF hosts[port] = NoIP THEN [hosts EXCEPT ![port] = ip] ELSE hosts

\* mutant: the packet is flooded but no flow is installed
FloodOnly(h, port, dst) == << PacketOut(h, port, <<OFPP_FLOOD>>, "packet_in") >>

\* the packet-out and flow-mod of the flood-everything stub
FloodAndInstall(h, port, dst) ==
  << PacketOut(h, port, <<OFPP_FLOOD>>, "packet_in"),
     FlowMod(h, IPV4_TYPE, dst, port, <<OFPP_FLOOD>>) >>

\* the handler: [hosts |-> connected_hosts of the receiving router, sent |-> messages]
HandlePacketIn(adj, hosts, r, h, port, pk) ==
  IF pk.igmp
  THEN IF FromNeighbourRouter(adj, r, port)
       THEN [hosts |-> hosts, sent |-> drop_packet(h, port)]
       ELSE [hosts |-> LearnHost(hosts, port, pk.srcip), sent |-> drop_packet(h, port)]
  ELSE IF pk.ipv4 /\ InMulticastNet(pk.dstip)
       THEN [hosts |-> IF FromNeighbourRouter(adj, r, port) THEN hosts
                       ELSE LearnHost(hosts, port, pk.srcip),
             sent |-> FloodAndInstall(h, port, pk.dstip)]
       ELSE [hosts |-> hosts, sent |-> <<>>]

\* mutant: a packet from an unrecognized router is dropped with a packet-out
UnrecognizedRouterDropped(h, port) == drop_packet(h, port)

\* `if not event.connection.dpid in self.routers: ... return`: nothing is sent
UnrecognizedRouterIgnored(h, port) == <<>>

PacketIn(h, port, pk) ==
  /\ nev < budget
  /\ h \in conn_up
  /\ IF routers[conn_dpid[h]] = NoRouter
     THEN /\ sent' = UnrecognizedRouterIgnored(h, port)
          /\ UNCHANGED connected_hosts
     ELSE LET r == routers[conn_dpid[h]]
              res == HandlePacketIn(adjacency, connected_hosts[r], r, h, port, pk)
          IN  /\ connected_hosts' = [connected_hosts EXCEPT ![r] = res.hosts]
              /\ sent' = res.sent
  /\ ev' = [NoEvent EXCEPT !.kind = "packet_in", !.dpid = conn_dpid[h], !.conn = h,
                           !.port = port, !.pkt = pk]
  /\ fault' = "none"
  /\ nev' = nev + 1
  /\ UNCHANGED <<routers, ports, igmp_ports, connection, adjacency,
                 got_first_connection_up, timers_armed, links, nconn, conn_dpid,
                 conn_up, budget, membership_records>>
  /\ trip' = NoTrip

\* ---------------------------------------------- launch_igmp_general_query
\* one packet-out per element of the router's igmp_ports list
RouterQueries(c, plist) ==
  [i \in 1..Len(plist) |-> PacketOut(c, OFPP_NONE, <<plist[i]>>, "igmp_query")]

RECURSIVE QueriesFrom(_, _, _)
\* for router_dpid in self.routers (ascending dpid), stopping at a raise
QueriesFrom(d, reg, acc) ==
  IF d \notin Dpids THEN [sent |-> acc, fault |-> "none"]
  ELSE IF reg[d] = NoRouter THEN QueriesFrom(d + 1, reg, acc)
  ELSE IF connection[reg[d]] = NoConn /\ Len(igmp_ports[reg[d]]) > 0
       THEN [sent |-> acc, fault |-> "AttributeError"]
  ELSE QueriesFrom(d + 1, reg,
                   acc \o RouterQueries(connection[reg[d]], igmp_ports[reg[d]]))

\* A tick of the recurring Timer armed by the first connection-up
TimerTick ==
  /\ nev < budget
  /\ timers_armed > 0
  /\ LET res == QueriesFrom(1, routers, <<>>) IN
       /\ sent' = res.sent
       /\ fault' = res.fault
  /\ ev' = [NoEvent EXCEPT !.kind = "timer"]
  /\ nev' = nev + 1
  /\ UNCHANGED <<routers, ports, igmp_ports, connected_hosts, connection, adjacency,
                 got_first_connection_up, timers_armed, links, nconn, conn_dpid,
                 conn_up, budget, membership_records>>
  /\ trip' = NoTrip

\* ------------------------------------------------------- specification
Next ==
  \/ \E d \in Dpids : ConnectionUp(d)
  \/ \E h \in ObjIds : ConnectionDown(h)
  \/ \E l \in Links : LinkUp(l)
  \/ \E l \in Links : LinkDown(l)
  \/ \E h \in ObjIds, port \in PhysPorts, pk \in Packets : PacketIn(h, port, pk)
  \/ TimerTick

Spec == Init /\ [][Next]_vars

\* The link-repair environment: switches connect, links come and go, hosts
\* and neighbouring routers send IGMP; a longer run of fewer event kinds.
IgmpPackets == {pk \in Packets : pk.igmp}

InitRepair == InitState /\ budget = MaxRepairEvents

NextRepair ==
  \/ \E d \in Dpids : ConnectionUp(d)
  \/ \E l \in Links : LinkUp(l)
  \/ \E l \in Links : LinkDown(l)
  \/ \E h \in ObjIds, port \in PhysPorts, pk \in IgmpPackets : PacketIn(h, port, pk)

SpecRepair == InitRepair /\ [][NextRepair]_vars

\* The reconnect environment: one cable between the two switches, one host
\* sending IGMP; switches connect, disconnect and connect again while the
\* cable's link reports come and go.
CableOne == {l \in Links : l[2] = 1}

HostReports == {pk \in IgmpPackets : pk.srcip = <<10, 0, 0, 5>>}

InitReconnect == InitState /\ budget = MaxReconnectEvents

NextReconnect ==
  \/ \E d \in Dpids : ConnectionUp(d)
  \/ \E h \in ObjIds : ConnectionDown(h)
  \/ \E l \in CableOne : LinkUp(l)
  \/ \E l \in CableOne : LinkDown(l)
  \/ \E h \in ObjIds, pk \in HostReports : PacketIn(h, 1, pk)

SpecReconnect == InitReconnect /\ [][NextReconnect]_vars


\* =====================================================================
\* Properties
\* =====================================================================
HoldsPort(v) == v \notin {AbsentKey, NoneVal}

Registered(d) == routers[d] # NoRouter

\* p is recorded in the adjacency map as the port of router object r facing a neighbour
InterRouterPort(r, p) == \E n \in ObjIds : adjacency[<<r, n>>] = p

\* the step processes a link-up (link-down) event for link l
IsLinkUpStep(l) == ev'.kind = "link_up" /\ ev'.link = l /\ nev' = nev + 1
IsLinkDownStep(l) == ev'.kind = "link_down" /\ ev'.link = l /\ nev' = nev + 1

\* C1: for two distinct registered routers that are not yet adjacent, once
\* the link-up events of both directions of a link have been processed (this
\* step processes the second one, the reverse being in the raw link set), the
\* adjacency map holds the link's ports in both directions and neither port
\* is in its router's igmp_ports any more.
C1_BothDirectionsCommit ==
  [][\A l \in Links :
       ( /\ IsLinkUpStep(l)
         /\ flip(l) \in links
         /\ Registered(l[1]) /\ Registered(l[3])
         /\ ~HoldsPort(adjacency[<<routers[l[1]], routers[l[3]]>>])
         /\ ~HoldsPort(adjacency[<<routers[l[3]], routers[l[1]]>>]) )
       => ( /\ adjacency'[<<routers[l[1]], routers[l[3]]>>] = l[2]
            /\ adjacency'[<<routers[l[3]], routers[l[1]]>>] = l[4]
            /\ ~Contains(igmp_ports'[routers[l[1]]], l[2])
            /\ ~Contains(igmp_ports'[routers[l[3]]], l[4]) )]_vars

\* C2: a link-up event whose reverse direction is not in the raw link set
\* creates no adjacency entry holding a port and leaves every igmp_ports list
\* and every connected_hosts table unchanged.
C2_UnidirectionalLinkUpNoEffect ==
  [][\A l \in Links :
       (IsLinkUpStep(l) /\ flip(l) \notin links')
       => ( /\ \A k \in ObjIds \X ObjIds :
                 (HoldsPort(adjacency'[k]) \/ HoldsPort(adjacency[k]))
                 => adjacency'[k] = adjacency[k]
            /\ igmp_ports' = igmp_ports
            /\ connected_hosts' = connected_hosts )]_vars

\* C2 witness: a link-up between two registered, not yet adjacent routers was
\* handled without a fault while its reverse is not reported.
C2_Witness ==
  /\ ev.kind = "link_up"
  /\ flip(ev.link) \notin links
  /\ Registered(ev.link[1]) /\ Registered(ev.link[3])
  /\ adjacency[<<routers[ev.link[1]], routers[ev.link[3]]>>] = NoneVal
  /\ fault = "none"

\* the links parallel to l that are reported in both directions
Alternatives(l, lks) ==
  {ll \in lks : ll # l /\ ll[1] = l[1] /\ ll[3] = l[3] /\ flip(ll) \in lks}

\* C3: after a link-down for link l between registered routers A and B,
\* handled while the raw link set holds another link between A and B in both
\* directions, the adjacency map holds that link's ports in both directions,
\* its ports are in neither igmp_ports list, and the ports of l are in the
\* igmp_ports lists of A and B.
C3_ParallelLinkPromoted ==
  [][\A l \in Links :
       ( /\ IsLinkDownStep(l)
         /\ Registered(l[1]) /\ Registered(l[3])
         /\ Alternatives(l, links') # {} )
       => \E ll \in Alternatives(l, links') :
            /\ adjacency'[<<routers[l[1]], routers[l[3]]>>] = ll[2]
            /\ adjacency'[<<routers[l[3]], routers[l[1]]>>] = ll[4]
            /\ ~Contains(igmp_ports'[routers[l[1]]], ll[2])
            /\ ~Contains(igmp_ports'[routers[l[3]]], ll[4])
            /\ Contains(igmp_ports'[routers[l[1]]], l[2])
            /\ Contains(igmp_ports'[routers[l[3]]], l[4])]_vars

\* C4: for every registered router, no port is both in igmp_ports and
\* recorded in the adjacency map as facing another router.
C4_EdgePortsDisjointFromAdjacency ==
  \A d \in Dpids : Registered(d) =>
    \A p \in PhysPorts :
      ~(Contains(igmp_ports[routers[d]], p) /\ InterRouterPort(routers[d], p))


\* C5: for every registered router, no port is both a key of connected_hosts
\* and recorded in the adjacency map as facing another router.
C5_HostPortsDisjointFromAdjacency ==
  \A d \in Dpids : Registered(d) =>
    \A p \in PhysPorts :
      ~(connected_hosts[routers[d]][p] # NoIP /\ InterRouterPort(routers[d], p))

\* C6: the adjacency map is symmetric: an entry holds a port in one direction
\* exactly when the entry of the opposite direction holds a port.
C6_AdjacencySymmetric ==
  \A a \in ObjIds, b \in ObjIds :
    HoldsPort(adjacency[<<a, b>>]) <=> HoldsPort(adjacency[<<b, a>>])

\* C7: every handler runs to completion: no event ends in an exception.
C7_NoHandlerRaises == fault = "none"

\* the step processes a packet-in of packet pk on port p of connection h
IsPacketInStep(h, p, pk) ==
  ev'.kind = "packet_in" /\ ev'.conn = h /\ ev'.port = p /\ ev'.pkt = pk /\ nev' = nev + 1

\* the last handler sent exactly one message, a packet-out with no actions
\* on connection h for input port p
OnlyDropSent(msgs, h, p) ==
  /\ Len(msgs) = 1
  /\ msgs[1].type = "packet_out"
  /\ msgs[1].actions = <<>>
  /\ msgs[1].conn = h
  /\ msgs[1].in_port = p

C9_IgmpLearnsHost ==
  [][\A h \in ObjIds, p \in PhysPorts, pk \in Packets :
       ( /\ IsPacketInStep(h, p, pk)
         /\ pk.igmp
         /\ Registered(conn_dpid[h])
         /\ ~\E n \in ObjIds : adjacency[<<routers[conn_dpid[h]], n>>] = p
         /\ connected_hosts[routers[conn_dpid[h]]][p] = NoIP )
       => ( /\ connected_hosts' =
                 [connected_hosts EXCEPT ![routers[conn_dpid[h]]][p] = pk.srcip]
            /\ connected_hosts'[routers[conn_dpid[h]]][p] # NoIP
            /\ OnlyDropSent(sent', h, p) )]_vars

\* C9 witness: the second event of the run is an IGMP packet-in with a
\* destination in 224.0.0.0/4 whose source was learned on its port.
C9_Witness ==
  /\ ev.kind = "packet_in"
  /\ nev = 2
  /\ ev.pkt.igmp
  /\ InMulticastNet(ev.pkt.dstip)
  /\ Registered(ev.dpid)
  /\ connected_hosts[routers[ev.dpid]][ev.port] = ev.pkt.srcip
  /\ OnlyDropSent(sent, ev.conn, ev.port)

\* C10: a connection-up for a dpid already in the registry leaves that
\* router's connected_hosts, igmp_ports and ports, and the adjacency map
\* (also as seen from the registry) unchanged.
C10_ReconnectPreservesState ==
  [][\A d \in Dpids :
       (ev'.kind = "connection_up" /\ ev'.dpid = d /\ nev' = nev + 1 /\ Registered(d))
       => ( /\ routers'[d] # NoRouter
            /\ connected_hosts'[routers'[d]] = connected_hosts[routers[d]]
            /\ igmp_ports'[routers'[d]] = igmp_ports[routers[d]]
            /\ ports'[routers'[d]] = ports[routers[d]]
            /\ adjacency' = adjacency
            /\ \A n \in ObjIds :
                 /\ adjacency'[<<routers'[d], n>>] = adjacency[<<routers[d], n>>]
                 /\ adjacency'[<<n, routers'[d]>>] = adjacency[<<n, routers[d]>>] )]_vars

\* C10 witness: a connection-up was handled for a registered router that has
\* a learned host and a confirmed adjacency.
C10_Witness ==
  /\ ev.kind = "connection_up"
  /\ Registered(ev.dpid)
  /\ routers[ev.dpid] # ev.conn
  /\ \E p \in PhysPorts : connected_hosts[routers[ev.dpid]][p] # NoIP
  /\ \E p \in PhysPorts : InterRouterPort(routers[ev.dpid], p)
  /\ Len(igmp_ports[routers[ev.dpid]]) = 1


\* C11: after every connection-up, for an unseen or a registered dpid alike,
\* the Router registered for the dpid is bound to the event's connection.
C11_ConnectionUpBindsHandle ==
  ev.kind = "connection_up" =>
    (Registered(ev.dpid) /\ connection[routers[ev.dpid]] = ev.conn)

\* C12: a connection-down or packet-in whose dpid is not in the registry
\* leaves the registry, the adjacency map, every igmp_ports list, every
\* connected_hosts table and the timer state unchanged and sends nothing.
C12_UnrecognizedRouterIgnored ==
  [][( /\ ev'.kind \in {"connection_down", "packet_in"}
       /\ nev' = nev + 1
       /\ ~Registered(ev'.dpid) )
     => ( /\ routers' = routers
          /\ adjacency' = adjacency
          /\ igmp_ports' = igmp_ports
          /\ connected_hosts' = connected_hosts
          /\ got_first_connection_up' = got_first_connection_up
          /\ timers_armed' = timers_armed
          /\ sent' = <<>> )]_vars

\* C12 witness: a packet-in was handled on a live connection of a switch
\* whose Router was removed by an earlier connection-down.
C12_Witness ==
  /\ ev.kind = "packet_in"
  /\ ev.conn \in conn_up
  /\ ~Registered(ev.dpid)
  /\ \E h \in ObjIds : h \notin conn_up /\ conn_dpid[h] = ev.dpid

\* the packet is a non-IGMP IPv4 packet with a destination in 224.0.0.0/4
IsMulticastData(pk) == pk # <<>> /\ ~pk.igmp /\ pk.ipv4 /\ pk.dstip[1] \in 224..239

HasFlowMod(msgs) == \E i \in 1..Len(msgs) : msgs[i].type = "flow_mod"

\* C13: a flow-install is sent exactly when a packet-in from a registered
\* router carries a non-IGMP IPv4 packet to 224.0.0.0/4; then exactly one
\* packet-out with a flood action and one flow-install (IPv4, that
\* destination, the input port, flood) go to the event's connection only, and
\* the source is learned on the port exactly when the port is not an
\* inter-router port and has no host entry.
C13_MulticastFloodAndInstall ==
  [][LET e == ev'
         data == e.kind = "packet_in" /\ Registered(e.dpid) /\ IsMulticastData(e.pkt)
     IN  nev' = nev + 1 =>
         /\ HasFlowMod(sent') <=> data
         /\ data =>
              LET r == routers[e.dpid] IN
              /\ Len(sent') = 2
              /\ sent'[1] = [type |-> "packet_out", conn |-> e.conn, in_port |-> e.port,
                             actions |-> <<OFPP_FLOOD>>, match |-> <<>>,
                             data |-> "packet_in"]
              /\ sent'[2] = [type |-> "flow_mod", conn |-> e.conn, in_port |-> e.port,
                             actions |-> <<OFPP_FLOOD>>,
                             match |-> <<IPV4_TYPE, e.pkt.dstip, e.port>>,
                             data |-> "none"]
              /\ connected_hosts' =
                   IF ~InterRouterPort(r, e.port) /\ connected_hosts[r][e.port] = NoIP
                   THEN [connected_hosts EXCEPT ![r][e.port] = e.pkt.srcip]
                   ELSE connected_hosts]_vars

\* C13 witness: a multicast data packet-in was handled on an inter-router
\* port of a registered router: flooded and installed, no host learned.
C13_Witness ==
  /\ ev.kind = "packet_in"
  /\ Registered(ev.dpid)
  /\ IsMulticastData(ev.pkt)
  /\ InterRouterPort(routers[ev.dpid], ev.port)
  /\ connected_hosts[routers[ev.dpid]][ev.port] = NoIP
  /\ HasFlowMod(sent)


\* the queries of msgs sent on connection c with output port p
QueriesOn(msgs, c, p) ==
  {i \in 1..Len(msgs) : /\ msgs[i].type = "packet_out"
                        /\ msgs[i].data = "igmp_query"
                        /\ msgs[i].conn = c
                        /\ msgs[i].actions = <<p>>}

\* the connections the registered routers are bound to
RegisteredConnections == {connection[routers[d]] : d \in {x \in Dpids : Registered(x)}}

\* C14: a timer tick sends, for every registered router and every port in
\* its igmp_ports, exactly one query on that port over the router's
\* connection, no query on a port the adjacency map records as facing
\* another router, and no message to a router that is not registered.
C14_OneQueryPerEdgePort ==
  ev.kind = "timer" =>
    /\ \A d \in Dpids : Registered(d) =>
         \A p \in PhysPorts :
           LET n == Cardinality(QueriesOn(sent, connection[routers[d]], p)) IN
           /\ Contains(igmp_ports[routers[d]], p) => n = 1
           /\ InterRouterPort(routers[d], p) => n = 0
    /\ \A i \in 1..Len(sent) : sent[i].conn \in RegisteredConnections

\* C15: the general-query timer is armed exactly once, by the first
\* connection-up ever handled and by no other event, and no query is launched
\* before a connection-up.
C15_TimerArmedOnce ==
  [][nev' = nev + 1 =>
       /\ timers_armed' = (IF nconn' > 0 THEN 1 ELSE 0)
       /\ (timers_armed' # timers_armed => (ev'.kind = "connection_up" /\ nconn = 0))
       /\ (ev'.kind = "timer" => nconn > 0)]_vars

\* C15 witness: the only router disconnected and a switch connected afterwards
C15_Witness ==
  /\ ev.kind = "connection_up"
  /\ ev.conn = 2
  /\ 1 \notin conn_up
  /\ timers_armed = 1


\* C16: when a packet-in teaches the controller a sender of multicast group G
\* (multicast data from a host the router has recorded on the receiving port),
\* membership_records holds a record for G.
C16_MembershipRecordCreated ==
  ( /\ ev.kind = "packet_in"
    /\ Registered(ev.dpid)
    /\ IsMulticastData(ev.pkt)
    /\ connected_hosts[routers[ev.dpid]][ev.port] = ev.pkt.srcip )
  => membership_records[ev.pkt.dstip] # NoneVal

\* C17: a link-up step that writes the link's ports into the adjacency map in
\* both directions leaves no connected_hosts entry on either port; and a
\* packet-in on a port the adjacency map holds for the receiving router
\* creates no connected_hosts entry on it.
C17_NoHostOnCommittedPorts ==
  [][nev' = nev + 1 =>
       /\ \A l \in Links :
            ( /\ IsLinkUpStep(l)
              /\ Registered(l[1]) /\ Registered(l[3])
              /\ adjacency'[<<routers[l[1]], routers[l[3]]>>] = l[2]
              /\ adjacency'[<<routers[l[3]], routers[l[1]]>>] = l[4]
              /\ adjacency' # adjacency )
            => ( /\ connected_hosts'[routers[l[1]]][l[2]] = NoIP
                 /\ connected_hosts'[routers[l[3]]][l[4]] = NoIP )
       /\ ( /\ ev'.kind = "packet_in"
            /\ Registered(ev'.dpid)
            /\ InterRouterPort(routers[ev'.dpid], ev'.port)
            /\ connected_hosts[routers[ev'.dpid]][ev'.port] = NoIP )
          => connected_hosts'[routers[ev'.dpid]][ev'.port] = NoIP]_vars

\* C18: a link-up event between two registered routers that have an
\* adjacency entry holding a port (in either direction) changes no adjacency
\* entry holding a port, no igmp_ports list and no connected_hosts table.
C18_ParallelLinkUpIgnored ==
  [][\A l \in Links :
       ( /\ IsLinkUpStep(l)
         /\ Registered(l[1]) /\ Registered(l[3])
         /\ \/ HoldsPort(adjacency[<<routers[l[1]], routers[l[3]]>>])
            \/ HoldsPort(adjacency[<<routers[l[3]], routers[l[1]]>>]) )
       => ( /\ \A k \in ObjIds \X ObjIds :
                 (HoldsPort(adjacency'[k]) \/ HoldsPort(adjacency[k]))
                 => adjacency'[k] = adjacency[k]
            /\ igmp_ports' = igmp_ports
            /\ connected_hosts' = connected_hosts )]_vars

\* the number of occurrences of x in list s
Count(s, x) == Cardinality({i \in 1..Len(s) : s[i] = x})

\* list now holds every port as often as list was
SamePorts(now, was) == \A p \in PhysPorts : Count(now, p) = Count(was, p)

\* the adjacency maps agree on every entry that holds a port
SameAdjacency(now, was) ==
  \A k \in ObjIds \X ObjIds :
    (HoldsPort(now[k]) \/ HoldsPort(was[k])) => now[k] = was[k]

\* C19: after link-up of both directions of a link between two registered,
\* non-adjacent routers with no other link between them, followed by
\* link-down of both directions, the two routers have no adjacency entry
\* holding a port in either direction and every igmp_ports list holds each
\* port as often as before the link-ups.
C19_ConfirmedLinkRoundTrip ==
  trip.stage = "both_down" =>
    LET r1 == routers[trip.link[1]]
        r2 == routers[trip.link[3]]
    IN  /\ ~HoldsPort(adjacency[<<r1, r2>>])
        /\ ~HoldsPort(adjacency[<<r2, r1>>])
        /\ \A o \in ObjIds : SamePorts(igmp_ports[o], trip.igmp_ports[o])

\* C20: after a link-up whose reverse is not reported, followed by the
\* link-down of the same link, the adjacency map holds the ports it held
\* before the link-up and every igmp_ports list holds each port as often as
\* before the link-up.
C20_PendingLinkRoundTrip ==
  trip.stage = "up_down" =>
    /\ SameAdjacency(adjacency, trip.adjacency)
    /\ \A o \in ObjIds : SamePorts(igmp_ports[o], trip.igmp_ports[o])


\* the host the registry's router for dpid d has recorded on port p
HostOf(reg, hosts, d, p) == IF reg[d] = NoRouter THEN NoIP ELSE hosts[reg[d]][p]

\* the step is a link-up that leaves port p of Router object o in the
\* adjacency map and no host recorded on it
RetractedByCommit(o, p) ==
  /\ ev'.kind = "link_up"
  /\ connected_hosts'[o][p] = NoIP
  /\ \E n \in ObjIds : adjacency'[<<o, n>>] = p

\* C21: a recorded host entry of a Router changes in no step other than a
\* link-up that commits a link on that port (which deletes the entry); in
\* particular a packet-in with another source address leaves it alone.  The
\* entry the registry shows for (dpid, port) changes only by such a
\* retraction or by a connection-down that removes the dpid's router.
C21_HostEntryStable ==
  [][/\ \A o \in ObjIds, p \in PhysPorts :
          (connected_hosts[o][p] # NoIP /\ connected_hosts'[o][p] # connected_hosts[o][p])
          => RetractedByCommit(o, p)
     /\ \A d \in Dpids, p \in PhysPorts :
          ( /\ HostOf(routers, connected_hosts, d, p) # NoIP
            /\ HostOf(routers', connected_hosts', d, p) # HostOf(routers, connected_hosts, d, p) )
          => \/ RetractedByCommit(routers[d], p)
             \/ (ev'.kind = "connection_down" /\ ev'.dpid = d /\ routers'[d] = NoRouter)]_vars

\* C21 witness: a packet-in that learns (IGMP or multicast data on a port no
\* adjacency holds) arrived from another source than the recorded host
C21_Witness ==
  /\ ev.kind = "packet_in"
  /\ Registered(ev.dpid)
  /\ ev.pkt # <<>>
  /\ ev.pkt.ipv4
  /\ ev.pkt.dstip[1] \in 224..239
  /\ ~InterRouterPort(routers[ev.dpid], ev.port)
  /\ connected_hosts[routers[ev.dpid]][ev.port] \notin {NoIP, ev.pkt.srcip}

\* the Router objects the registry holds
RegisteredRouters == {routers[d] : d \in {x \in Dpids : Registered(x)}}

\* C22: every Router object that appears in an adjacency entry holding a
\* port, as source or as neighbour, is held in the registry.
C22_AdjacencyWithinRegistry ==
  \A k \in ObjIds \X ObjIds :
    HoldsPort(adjacency[k]) => (k[1] \in RegisteredRouters /\ k[2] \in RegisteredRouters)

====
